---------------------------- MODULE Spec2Model ----------------------------
(***************************************************************************)
(* Model of the webhook normalisation and dispatch pipeline:               *)
(*   src/src/github/webhook_handler.py  (GitHubWebhookHandler)             *)
(*   src/src/github/mappers.py          (the six event mappers)            *)
(*   src/src/event_bus/schema.py        (StandardEvent and its records)    *)
(*   src/src/event_bus/publisher.py     (the publishers)                   *)
(*   src/src/api/flask_app.py           (the request pipeline)             *)
(*                                                                         *)
(* Conventions.  A Python str is a sequence of one-character strings where *)
(* the code looks inside it (the signature header), and a TLA+ string      *)
(* elsewhere.  Python bytes are sequences of numbers 0..255.  A Python     *)
(* exception is the string naming its class.  None is the string "None".   *)
(***************************************************************************)
EXTENDS Integers, Sequences, FiniteSets, TLC

VARIABLES
    secret,        \* GitHubWebhookHandler.secret (bytes)
    publishers,    \* MultiPublisher.publishers (sequence of sinks)
    pc,            \* position of the operation under way
    headers,       \* request headers (a record; an absent header is not in its domain)
    body,          \* raw request body: [raw |-> bytes, json |-> what the bytes decode to]
    payload,       \* handle_request / process_webhook: payload
    event_type,    \* handle_request / process_webhook: event_type
    delivery_id,   \* handle_request / process_webhook: delivery_id
    outcome,       \* how the operation under way ended: [kind, exc, value]
    event,         \* the StandardEvent a mapper returned (NoEvent before)
    trace,         \* the steps executed so far by the operation, in order
    sinkLog,       \* MultiPublisher.publish: what each invoked sink did, in order
    response       \* github_webhook: HTTP status returned (0 before)

vars == << secret, publishers, pc, headers, body, payload, event_type,
           delivery_id, outcome, event, trace, sinkLog, response >>

----------------------------------------------------------------------------
(* Bounds of the model.                                                    *)

MaxSecretLen == 2
MaxBodyLen == 1
MaxCommits == 2
MaxSinks == 3

----------------------------------------------------------------------------
(* Python values.                                                          *)

None == "None"

\* An in-flight operation has not ended; it returns a value or raises.
Pending == [kind |-> "pending", exc |-> None, value |-> None]
Returned(v) == [kind |-> "return", exc |-> None, value |-> v]
Raised(e) == [kind |-> "raise", exc |-> e, value |-> None]

\* All sequences over S of length 0..n.
SeqsUpTo(S, n) == UNION { [1..k -> S] : k \in 0..n }

----------------------------------------------------------------------------
(* hmac.new(key, msg, hashlib.sha256).hexdigest()                          *)

\* hashlib.sha256 block size in bytes.
BlockSize == 64

\* The byte values the explored secrets and bodies are made of: NUL and 'k'.
ByteVals == {0, 107}

\* SHA-256 is taken to be collision free: the digest of x stands for x itself,
\* so two digests are equal exactly when their preimages are.
sha256(bytes) == bytes

RECURSIVE XorBits(_, _, _)
XorBits(a, b, n) ==
    IF n = 0 THEN 0
    ELSE (((a % 2) + (b % 2)) % 2) + (2 * XorBits(a \div 2, b \div 2, n - 1))

\* bytes.translate(trans_36 / trans_5C): every byte xor the pad byte.
XorPad(bytes, pad) == [i \in 1..Len(bytes) |-> XorBits(bytes[i], pad, 8)]

\* A key longer than the block is hashed first, then the key is padded with
\* zero bytes to the block size.
HmacKeyBlock(key) ==
    LET k == IF Len(key) > BlockSize THEN sha256(key) ELSE key
        pad == IF Len(k) < BlockSize THEN BlockSize - Len(k) ELSE 0
    IN  k \o [i \in 1..pad |-> 0]

hmac_digest(key, msg) ==
    LET kb == HmacKeyBlock(key)
        inner == sha256(XorPad(kb, 54) \o msg)
    IN  sha256(XorPad(kb, 92) \o inner)

HexDigits ==
    << "0", "1", "2", "3", "4", "5", "6", "7",
       "8", "9", "a", "b", "c", "d", "e", "f" >>

\* bytes.hex(): two lower-case hexadecimal digits per byte.
Hex(bytes) ==
    [j \in 1..(2 * Len(bytes)) |->
        LET b == bytes[(j + 1) \div 2]
        IN  IF j % 2 = 1 THEN HexDigits[(b \div 16) + 1] ELSE HexDigits[(b % 16) + 1]]

hexdigest(key, msg) == Hex(hmac_digest(key, msg))

----------------------------------------------------------------------------
(* GitHubWebhookHandler.verify_signature                                   *)

SigPrefix == << "s", "h", "a", "2", "5", "6", "=" >>

\* One character outside ASCII (e-acute), as a header value may carry.
NonAsciiChar == "U+00E9"
IsAscii(str) == \A i \in 1..Len(str) : str[i] # NonAsciiChar

startswith(str, prefix) ==
    /\ Len(str) >= Len(prefix)
    /\ SubSeq(str, 1, Len(prefix)) = prefix

\* hmac.compare_digest on two str: TypeError unless both are ASCII only.
compare_digest(a, b) ==
    IF IsAscii(a) /\ IsAscii(b) THEN Returned(a = b) ELSE Raised("TypeError")

\* signature[7:]
ReceivedSignature(signature) == SubSeq(signature, 8, Len(signature))

\* verify_signature with the digest computed over an empty payload.
verify_signature_ignoring_body(key, raw, signature) ==
    IF signature = << >> \/ ~startswith(signature, SigPrefix)
    THEN Returned(FALSE)
    ELSE compare_digest(hexdigest(key, << >>), ReceivedSignature(signature))

verify_signature(key, raw, signature) ==
    IF signature = << >> \/ ~startswith(signature, SigPrefix)
    THEN Returned(FALSE)
    ELSE compare_digest(hexdigest(key, raw), ReceivedSignature(signature))

\* The header a sender holding `key` computes for `raw`.
Sign(key, raw) == SigPrefix \o hexdigest(key, raw)


----------------------------------------------------------------------------
(* src/src/event_bus/schema.py                                             *)
(* An enumeration member is the string Python prints for it, and its       *)
(* .value is looked up in the enumeration's table.  An instance of a data  *)
(* class is a record with its class name in the field cls and its          *)
(* attributes in the other fields; obj.__dict__ is the record without cls. *)

EventType ==
    ("EventType.CODE_PUSH" :> "code.push") @@
    ("EventType.CODE_COMMIT" :> "code.commit") @@
    ("EventType.PR_OPENED" :> "pr.opened") @@
    ("EventType.PR_CLOSED" :> "pr.closed") @@
    ("EventType.PR_MERGED" :> "pr.merged") @@
    ("EventType.PR_REOPENED" :> "pr.reopened") @@
    ("EventType.PR_UPDATED" :> "pr.updated") @@
    ("EventType.PR_REVIEWED" :> "pr.reviewed") @@
    ("EventType.PR_REVIEW_REQUESTED" :> "pr.review_requested") @@
    ("EventType.PR_COMMENT" :> "pr.comment") @@
    ("EventType.ISSUE_OPENED" :> "issue.opened") @@
    ("EventType.ISSUE_CLOSED" :> "issue.closed") @@
    ("EventType.ISSUE_REOPENED" :> "issue.reopened") @@
    ("EventType.ISSUE_UPDATED" :> "issue.updated") @@
    ("EventType.ISSUE_COMMENT" :> "issue.comment") @@
    ("EventType.RELEASE_PUBLISHED" :> "release.published") @@
    ("EventType.RELEASE_CREATED" :> "release.created") @@
    ("EventType.RELEASE_DELETED" :> "release.deleted") @@
    ("EventType.DEPLOYMENT_STARTED" :> "deployment.started") @@
    ("EventType.DEPLOYMENT_COMPLETED" :> "deployment.completed") @@
    ("EventType.DEPLOYMENT_FAILED" :> "deployment.failed")

ChangeType ==
    ("ChangeType.COMMIT" :> "commit") @@
    ("ChangeType.FILE_ADD" :> "file.add") @@
    ("ChangeType.FILE_MODIFY" :> "file.modify") @@
    ("ChangeType.FILE_DELETE" :> "file.delete")

IsEnumMember(x) == x \in (DOMAIN EventType) \cup (DOMAIN ChangeType)

Actor(id, username, name, email, avatar_url) ==
    [cls |-> "Actor", id |-> id, username |-> username, name |-> name,
     email |-> email, avatar_url |-> avatar_url]

Repository(id, name, full_name, owner, url, default_branch) ==
    [cls |-> "Repository", id |-> id, name |-> name, full_name |-> full_name,
     owner |-> owner, url |-> url, default_branch |-> default_branch]

Change(type, id, message, timestamp, author, files_added, files_modified, files_removed) ==
    [cls |-> "Change", type |-> type, id |-> id, message |-> message,
     timestamp |-> timestamp, author |-> author, files_added |-> files_added,
     files_modified |-> files_modified, files_removed |-> files_removed]

\* EventMetadata(): every field at its default.
EventMetadata ==
    [cls |-> "EventMetadata",
     ref |-> None, before |-> None, after |-> None, created |-> None,
     deleted |-> None, forced |-> None, base_ref |-> None, compare_url |-> None,
     pr_number |-> None, pr_title |-> None, pr_state |-> None, pr_url |-> None,
     pr_merged |-> None, pr_draft |-> None, pr_base_ref |-> None,
     pr_head_ref |-> None, pr_author |-> None,
     issue_number |-> None, issue_title |-> None, issue_state |-> None,
     issue_url |-> None, issue_author |-> None,
     comment_id |-> None, comment_body |-> None, comment_url |-> None,
     review_id |-> None, review_state |-> None, review_body |-> None,
     review_url |-> None,
     release_id |-> None, release_name |-> None, release_tag |-> None,
     release_url |-> None, release_draft |-> None, release_prerelease |-> None,
     action |-> None, labels |-> << >>, assignees |-> << >>,
     custom |-> [k \in {} |-> None]]

StandardEvent(id, type, source, timestamp, actor, repository, metadata, changes, raw_payload) ==
    [cls |-> "StandardEvent", id |-> id, type |-> type, source |-> source,
     timestamp |-> timestamp, actor |-> actor, repository |-> repository,
     metadata |-> metadata, changes |-> changes, raw_payload |-> raw_payload]

\* obj.__dict__
ObjDict(obj) == [f \in (DOMAIN obj) \ {"cls"} |-> obj[f]]

\* StandardEvent.to_dict
to_dict(self) ==
    [id |-> self.id,
     type |-> EventType[self.type],
     source |-> self.source,
     timestamp |-> self.timestamp,
     actor |-> ObjDict(self.actor),
     repository |-> ObjDict(self.repository),
     metadata |-> ObjDict(self.metadata),
     changes |-> [i \in 1..Len(self.changes) |-> ObjDict(self.changes[i])],
     raw_payload |-> self.raw_payload]

----------------------------------------------------------------------------
(* src/src/github/mappers.py                                               *)
(* A payload is what json.loads gave: [kind |-> "object", value |-> dict]  *)
(* or [kind |-> "array"].  A dict is a record; d[k] on a key it lacks      *)
(* raises KeyError.                                                        *)

HasKeys(d, ks) == ks \subseteq DOMAIN d

\* d.get(k, default)
Get(d, k, default) == IF k \in DOMAIN d THEN d[k] ELSE default

\* str(n) of an integer
Str(n) == ToString(n)

\* extract_actor succeeds on user_data
ActorKeys(user_data) == HasKeys(user_data, {"id", "login"})

extract_actor(user_data) ==
    Actor(Str(user_data.id), user_data.login, Get(user_data, "name", None),
          Get(user_data, "email", None), Get(user_data, "avatar_url", None))

\* extract_repository succeeds on repo_data
RepositoryKeys(repo_data) ==
    /\ HasKeys(repo_data, {"id", "name", "full_name", "owner", "html_url"})
    /\ HasKeys(repo_data.owner, {"login"})

extract_repository(repo_data) ==
    Repository(Str(repo_data.id), repo_data.name, repo_data.full_name,
               repo_data.owner.login, repo_data.html_url,
               Get(repo_data, "default_branch", "main"))

\* The subscripts map_push_event takes of one commit.
CommitKeys(commit) ==
    /\ HasKeys(commit, {"id", "message", "timestamp", "author"})
    /\ HasKeys(commit.author, {"username", "name", "email"})

\* A mapper that files the commit's added paths as modified and the
\* modified ones as added.
PushChangeSwapped(commit) ==
    Change("ChangeType.COMMIT", commit.id, commit.message, commit.timestamp,
           Actor("", commit.author.username, commit.author.name,
                 commit.author.email, None),
           Get(commit, "modified", << >>), Get(commit, "added", << >>),
           Get(commit, "removed", << >>))

PushChange(commit) ==
    Change("ChangeType.COMMIT", commit.id, commit.message, commit.timestamp,
           Actor("", commit.author.username, commit.author.name,
                 commit.author.email, None),
           Get(commit, "added", << >>), Get(commit, "modified", << >>),
           Get(commit, "removed", << >>))

map_push_event(p, did, now) ==
    IF p.kind # "object" THEN Raised("AttributeError")
    ELSE
    LET d == p.value
        commits == Get(d, "commits", << >>)
    IN  IF \/ \E i \in 1..Len(commits) : ~CommitKeys(commits[i])
           \/ ~HasKeys(d, {"pusher"}) \/ ~ActorKeys(d.pusher)
           \/ ~HasKeys(d, {"repository"}) \/ ~RepositoryKeys(d.repository)
           \/ ~HasKeys(d, {"ref", "before", "after"})
        THEN Raised("KeyError")
        ELSE Returned(StandardEvent(
                 did, "EventType.CODE_PUSH", "github", now,
                 extract_actor(d.pusher),
                 extract_repository(d.repository),
                 [EventMetadata EXCEPT
                     !.ref = d.ref, !.before = d.before, !.after = d.after,
                     !.created = Get(d, "created", FALSE),
                     !.deleted = Get(d, "deleted", FALSE),
                     !.forced = Get(d, "forced", FALSE),
                     !.base_ref = Get(d, "base_ref", None),
                     !.compare_url = Get(d, "compare", None)],
                 [i \in 1..Len(commits) |-> PushChange(commits[i])],
                 d))

\* A table that does not look at the pull request's merged flag.
PullRequestEventTypeUnmerged(action, pr) ==
    CASE action = "opened" -> "EventType.PR_OPENED"
      [] action = "closed" -> "EventType.PR_CLOSED"
      [] action = "reopened" -> "EventType.PR_REOPENED"
      [] action = "review_requested" -> "EventType.PR_REVIEW_REQUESTED"
      [] OTHER -> "EventType.PR_UPDATED"

\* event_type_map.get(action, EventType.PR_UPDATED)
PullRequestEventType(action, pr) ==
    CASE action = "opened" -> "EventType.PR_OPENED"
      [] action = "closed" ->
            IF Get(pr, "merged", FALSE) THEN "EventType.PR_MERGED"
            ELSE "EventType.PR_CLOSED"
      [] action = "reopened" -> "EventType.PR_REOPENED"
      [] action = "synchronize" -> "EventType.PR_UPDATED"
      [] action = "edited" -> "EventType.PR_UPDATED"
      [] action = "review_requested" -> "EventType.PR_REVIEW_REQUESTED"
      [] OTHER -> "EventType.PR_UPDATED"

\* [label['name'] for label in labels]
Names(labels) == [i \in 1..Len(labels) |-> labels[i].name]
NamesKeys(labels) == \A i \in 1..Len(labels) : HasKeys(labels[i], {"name"})

\* [assignee['login'] for assignee in assignees]
Logins(users) == [i \in 1..Len(users) |-> users[i].login]
LoginsKeys(users) == \A i \in 1..Len(users) : HasKeys(users[i], {"login"})

map_pull_request_event(p, did, now) ==
    IF p.kind # "object" THEN Raised("TypeError")
    ELSE
    LET d == p.value
        pr == d.pull_request
    IN  IF \/ ~HasKeys(d, {"pull_request", "action"})
           \/ ~HasKeys(d, {"sender"}) \/ ~ActorKeys(d.sender)
           \/ ~HasKeys(d, {"repository"}) \/ ~RepositoryKeys(d.repository)
           \/ ~HasKeys(pr, {"number", "title", "state", "html_url", "base", "head", "user"})
           \/ ~HasKeys(pr.base, {"ref"}) \/ ~HasKeys(pr.head, {"ref"})
           \/ ~HasKeys(pr.user, {"login"})
           \/ ~NamesKeys(Get(pr, "labels", << >>))
        THEN Raised("KeyError")
        ELSE Returned(StandardEvent(
                 did, PullRequestEventType(d.action, pr), "github", now,
                 extract_actor(d.sender),
                 extract_repository(d.repository),
                 [EventMetadata EXCEPT
                     !.pr_number = pr.number, !.pr_title = pr.title,
                     !.pr_state = pr.state, !.pr_url = pr.html_url,
                     !.pr_merged = Get(pr, "merged", FALSE),
                     !.pr_draft = Get(pr, "draft", FALSE),
                     !.pr_base_ref = pr.base.ref, !.pr_head_ref = pr.head.ref,
                     !.pr_author = pr.user.login,
                     !.action = d.action,
                     !.labels = Names(Get(pr, "labels", << >>))],
                 << >>,
                 d))

\* event_type_map.get(action, EventType.ISSUE_UPDATED)
IssueEventType(action) ==
    CASE action = "opened" -> "EventType.ISSUE_OPENED"
      [] action = "closed" -> "EventType.ISSUE_CLOSED"
      [] action = "reopened" -> "EventType.ISSUE_REOPENED"
      [] action = "edited" -> "EventType.ISSUE_UPDATED"
      [] action = "assigned" -> "EventType.ISSUE_UPDATED"
      [] action = "labeled" -> "EventType.ISSUE_UPDATED"
      [] OTHER -> "EventType.ISSUE_UPDATED"

map_issue_event(p, did, now) ==
    IF p.kind # "object" THEN Raised("TypeError")
    ELSE
    LET d == p.value
        issue == d.issue
    IN  IF \/ ~HasKeys(d, {"issue", "action"})
           \/ ~HasKeys(d, {"sender"}) \/ ~ActorKeys(d.sender)
           \/ ~HasKeys(d, {"repository"}) \/ ~RepositoryKeys(d.repository)
           \/ ~HasKeys(issue, {"number", "title", "state", "html_url", "user"})
           \/ ~HasKeys(issue.user, {"login"})
           \/ ~NamesKeys(Get(issue, "labels", << >>))
           \/ ~LoginsKeys(Get(issue, "assignees", << >>))
        THEN Raised("KeyError")
        ELSE Returned(StandardEvent(
                 did, IssueEventType(d.action), "github", now,
                 extract_actor(d.sender),
                 extract_repository(d.repository),
                 [EventMetadata EXCEPT
                     !.issue_number = issue.number, !.issue_title = issue.title,
                     !.issue_state = issue.state, !.issue_url = issue.html_url,
                     !.issue_author = issue.user.login,
                     !.action = d.action,
                     !.labels = Names(Get(issue, "labels", << >>)),
                     !.assignees = Logins(Get(issue, "assignees", << >>))],
                 << >>,
                 d))

\* A mapper that looks for the pull_request key in the payload, not in its
\* issue object.
map_issue_comment_event_top_level(p, did, now) ==
    IF p.kind # "object" THEN Raised("TypeError")
    ELSE
    LET d == p.value
        comment == d.comment
        issue == d.issue
        is_pr == "pull_request" \in DOMAIN d
    IN  IF \/ ~HasKeys(d, {"comment", "issue"})
           \/ ~HasKeys(d, {"sender"}) \/ ~ActorKeys(d.sender)
           \/ ~HasKeys(d, {"repository"}) \/ ~RepositoryKeys(d.repository)
           \/ ~HasKeys(comment, {"id", "body", "html_url"})
           \/ ~HasKeys(issue, {"number", "title"})
           \/ ~HasKeys(d, {"action"})
        THEN Raised("KeyError")
        ELSE Returned(StandardEvent(
                 did,
                 IF is_pr THEN "EventType.PR_COMMENT" ELSE "EventType.ISSUE_COMMENT",
                 "github", now,
                 extract_actor(d.sender),
                 extract_repository(d.repository),
                 [EventMetadata EXCEPT
                     !.comment_id = comment.id, !.comment_body = comment.body,
                     !.comment_url = comment.html_url,
                     !.issue_number = issue.number, !.issue_title = issue.title,
                     !.action = d.action],
                 << >>,
                 d))

map_issue_comment_event(p, did, now) ==
    IF p.kind # "object" THEN Raised("TypeError")
    ELSE
    LET d == p.value
        comment == d.comment
        issue == d.issue
        is_pr == "pull_request" \in DOMAIN issue
    IN  IF \/ ~HasKeys(d, {"comment", "issue"})
           \/ ~HasKeys(d, {"sender"}) \/ ~ActorKeys(d.sender)
           \/ ~HasKeys(d, {"repository"}) \/ ~RepositoryKeys(d.repository)
           \/ ~HasKeys(comment, {"id", "body", "html_url"})
           \/ ~HasKeys(issue, {"number", "title"})
           \/ ~HasKeys(d, {"action"})
        THEN Raised("KeyError")
        ELSE Returned(StandardEvent(
                 did,
                 IF is_pr THEN "EventType.PR_COMMENT" ELSE "EventType.ISSUE_COMMENT",
                 "github", now,
                 extract_actor(d.sender),
                 extract_repository(d.repository),
                 [EventMetadata EXCEPT
                     !.comment_id = comment.id, !.comment_body = comment.body,
                     !.comment_url = comment.html_url,
                     !.issue_number = issue.number, !.issue_title = issue.title,
                     !.action = d.action],
                 << >>,
                 d))

map_pull_request_review_event(p, did, now) ==
    IF p.kind # "object" THEN Raised("TypeError")
    ELSE
    LET d == p.value
        review == d.review
        pr == d.pull_request
    IN  IF \/ ~HasKeys(d, {"review", "pull_request"})
           \/ ~HasKeys(d, {"sender"}) \/ ~ActorKeys(d.sender)
           \/ ~HasKeys(d, {"repository"}) \/ ~RepositoryKeys(d.repository)
           \/ ~HasKeys(review, {"id", "state", "html_url"})
           \/ ~HasKeys(pr, {"number", "title"})
           \/ ~HasKeys(d, {"action"})
        THEN Raised("KeyError")
        ELSE Returned(StandardEvent(
                 did, "EventType.PR_REVIEWED", "github", now,
                 extract_actor(d.sender),
                 extract_repository(d.repository),
                 [EventMetadata EXCEPT
                     !.review_id = review.id, !.review_state = review.state,
                     !.review_body = Get(review, "body", ""),
                     !.review_url = review.html_url,
                     !.pr_number = pr.number, !.pr_title = pr.title,
                     !.action = d.action],
                 << >>,
                 d))

map_release_event(p, did, now) ==
    IF p.kind # "object" THEN Raised("TypeError")
    ELSE
    LET d == p.value
        release == d.release
    IN  IF \/ ~HasKeys(d, {"release"})
           \/ ~HasKeys(d, {"sender"}) \/ ~ActorKeys(d.sender)
           \/ ~HasKeys(d, {"repository"}) \/ ~RepositoryKeys(d.repository)
           \/ ~HasKeys(release, {"id", "name", "tag_name", "html_url", "draft", "prerelease"})
           \/ ~HasKeys(d, {"action"})
        THEN Raised("KeyError")
        ELSE Returned(StandardEvent(
                 did, "EventType.RELEASE_PUBLISHED", "github", now,
                 extract_actor(d.sender),
                 extract_repository(d.repository),
                 [EventMetadata EXCEPT
                     !.release_id = release.id, !.release_name = release.name,
                     !.release_tag = release.tag_name,
                     !.release_url = release.html_url,
                     !.release_draft = release.draft,
                     !.release_prerelease = release.prerelease,
                     !.action = d.action],
                 << >>,
                 d))

----------------------------------------------------------------------------
(* GitHubWebhookHandler.__init__ and process_webhook                       *)

\* self.event_mappers
event_mappers ==
    ("push" :> "map_push_event") @@
    ("pull_request" :> "map_pull_request_event") @@
    ("issues" :> "map_issue_event") @@
    ("issue_comment" :> "map_issue_comment_event") @@
    ("pull_request_review" :> "map_pull_request_review_event") @@
    ("release" :> "map_release_event")

\* mapper(payload, delivery_id), the clock reading now
CallMapper(mapper, p, did, now) ==
    CASE mapper = "map_push_event" -> map_push_event(p, did, now)
      [] mapper = "map_pull_request_event" -> map_pull_request_event(p, did, now)
      [] mapper = "map_issue_event" -> map_issue_event(p, did, now)
      [] mapper = "map_issue_comment_event" -> map_issue_comment_event(p, did, now)
      [] mapper = "map_pull_request_review_event" ->
            map_pull_request_review_event(p, did, now)
      [] mapper = "map_release_event" -> map_release_event(p, did, now)

Step(name, arg) == [step |-> name, arg |-> arg]

\* process_webhook that answers a mapper's exception with None.
process_webhook_swallowing(et, p, did, now) ==
    IF et \notin DOMAIN event_mappers
    THEN [outcome |-> Returned(None), standard_event |-> [cls |-> "NoneType"], steps |-> << >>]
    ELSE LET mapper == event_mappers[et]
             r == CallMapper(mapper, p, did, now)
         IN  [outcome |-> IF r.kind = "return" THEN r ELSE Returned(None),
              standard_event |-> IF r.kind = "return" THEN r.value ELSE [cls |-> "NoneType"],
              steps |-> << Step("mapper", mapper) >>]

\* process_webhook that hands an unsupported category to the push mapper.
process_webhook_fallback(et, p, did, now) ==
    LET mapper == IF et \in DOMAIN event_mappers THEN event_mappers[et]
                  ELSE "map_push_event"
        r == CallMapper(mapper, p, did, now)
    IN  [outcome |-> r,
         standard_event |-> IF r.kind = "return" THEN r.value ELSE [cls |-> "NoneType"],
         steps |-> << Step("mapper", mapper) >>]

\* What process_webhook does: its outcome, its local standard_event, and the
\* mappers it invoked.
process_webhook(et, p, did, now) ==
    IF et \notin DOMAIN event_mappers
    THEN [outcome |-> Returned(None), standard_event |-> [cls |-> "NoneType"], steps |-> << >>]
    ELSE LET mapper == event_mappers[et]
             r == CallMapper(mapper, p, did, now)
         IN  [outcome |-> r,
              standard_event |-> IF r.kind = "return" THEN r.value ELSE [cls |-> "NoneType"],
              steps |-> << Step("mapper", mapper) >>]

----------------------------------------------------------------------------
(* src/src/event_bus/publisher.py                                          *)

\* json.dumps accepts str, numbers, booleans, None, lists and dicts of
\* them: not an enumeration member, not an instance of a data class.
IsPlainMapping(v) == "cls" \notin DOMAIN v

JsonSerializable(d) ==
    /\ ~IsEnumMember(d.type)
    /\ IsPlainMapping(d.actor)
    /\ IsPlainMapping(d.repository)
    /\ IsPlainMapping(d.metadata)
    /\ \A i \in 1..Len(d.changes) :
          /\ IsPlainMapping(d.changes[i])
          /\ ~IsEnumMember(d.changes[i].type)
          /\ IsPlainMapping(d.changes[i].author)

json_dumps(d) == IF JsonSerializable(d) THEN Returned(TRUE) ELSE Raised("TypeError")

ConsolePublisher_publish(ev) ==
    IF json_dumps(to_dict(ev)).kind = "raise" THEN Raised("TypeError")
    ELSE Returned(TRUE)

\* requests.post(json=...) encodes the mapping first (a TypeError of the
\* encoder is no RequestException); then the transport answers 2xx, or
\* fails with a RequestException.
Transport == {"2xx", "RequestException"}

HTTPPublisher_publish(ev, net) ==
    IF json_dumps(to_dict(ev)).kind = "raise" THEN Raised("TypeError")
    ELSE IF net = "2xx" THEN Returned(TRUE) ELSE Returned(FALSE)

MessageQueuePublisher_publish(ev) == Raised("NotImplementedError")

SinkKinds == {"ConsolePublisher", "HTTPPublisher", "MessageQueuePublisher"}

\* publisher.publish(event) for one configured sink.
SinkPublish(sink, ev, net) ==
    CASE sink = "ConsolePublisher" -> ConsolePublisher_publish(ev)
      [] sink = "HTTPPublisher" -> HTTPPublisher_publish(ev, net)
      [] sink = "MessageQueuePublisher" -> MessageQueuePublisher_publish(ev)

\* all(results)
All(results) == \A i \in 1..Len(results) : results[i].result.value

----------------------------------------------------------------------------
(* Exceptions                                                              *)

\* What `except ValueError` catches: ValueError and its subclasses.
ValueErrors == {"ValueError", "JSONDecodeError", "UnicodeDecodeError"}

\* json.loads(body)
json_loads(b) ==
    IF b.json.kind = "invalid" THEN Raised("JSONDecodeError") ELSE Returned(b.json)

----------------------------------------------------------------------------
(* Values the variables hold while the operation that sets them has not run *)

NoHeaders == [h \in {} |-> None]
NoBody == [raw |-> << >>, json |-> [kind |-> "invalid"]]
NoPayload == [kind |-> "none"]
NoEvent == [cls |-> "NoneType"]

HdrSignature == "X-Hub-Signature-256"
HdrEvent == "X-GitHub-Event"
HdrDelivery == "X-GitHub-Delivery"

\* headers.get(name, default)
HeaderGet(hs, name, default) == IF name \in DOMAIN hs THEN hs[name] ELSE default

----------------------------------------------------------------------------
(* Inputs of the signature verifier                                        *)

\* GitHubWebhookHandler.__init__: secret.encode('utf-8'), any byte string.
Secrets == SeqsUpTo(ByteVals, MaxSecretLen)

RawBodies == SeqsUpTo(ByteVals, MaxBodyLen)

\* Header values that are not a well-formed signature of anything.
MalformedSignatures(key, raw) ==
    { << >>,                                          \* missing or empty
      hexdigest(key, raw),                            \* right digest, no prefix
      << "s", "h", "a", "1", "=" >> \o hexdigest(key, raw),  \* other algorithm tag
      SigPrefix,                                      \* prefix and nothing else
      SigPrefix \o << "0", "0" >>,                    \* prefix and a wrong digest
      SigPrefix \o << NonAsciiChar >>,                \* prefix and a non-ASCII string
      SigPrefix \o hexdigest(key, raw) \o << "0" >> } \* right digest and a trailing digit

\* Every sender: a secret, a body and the header computed with them.
Signers == { [key |-> k, raw |-> r, header |-> Sign(k, r)] : k \in Secrets, r \in RawBodies }

SignedHeaders == { s.header : s \in Signers }

InitVerify ==
    /\ secret \in Secrets
    /\ \E raw \in RawBodies :
         /\ body = [raw |-> raw, json |-> [kind |-> "invalid"]]
         /\ \E sig \in MalformedSignatures(secret, raw) \cup SignedHeaders :
              headers = (HdrSignature :> sig)
    /\ publishers = << >>
    /\ pc = "verify_signature"
    /\ payload = NoPayload
    /\ event_type = None
    /\ delivery_id = None
    /\ outcome = Pending
    /\ event = NoEvent
    /\ trace = << >>
    /\ sinkLog = << >>
    /\ response = 0

\* One call of handler.verify_signature(body, signature).
VerifySignatureCall ==
    /\ pc = "verify_signature"
    /\ outcome' = verify_signature(secret, body.raw, headers[HdrSignature])
    /\ pc' = "verify_signature_done"
    /\ trace' = Append(trace, "verify_signature")
    /\ UNCHANGED << secret, publishers, headers, body, payload, event_type,
                    delivery_id, event, sinkLog, response >>

NextVerify == VerifySignatureCall

SpecVerify == InitVerify /\ [][NextVerify]_vars


----------------------------------------------------------------------------
(* Claims about verify_signature, checked under SpecVerify                 *)

VerifyDone == pc = "verify_signature_done"

\* C2: verify_signature fails closed: for every header value that is not the
\* expected 'sha256=' + digest (missing, not prefixed, or prefixed and followed
\* by any other string, whatever its characters) it returns False and never
\* raises.
C2_FailsClosed ==
    (VerifyDone /\ headers[HdrSignature] # Sign(secret, body.raw))
        => (outcome.kind = "return" /\ outcome.value = FALSE)

\* A secret without its trailing zero bytes.
RECURSIVE TrimTrailingZeros(_)
TrimTrailingZeros(key) ==
    IF key # << >> /\ key[Len(key)] = 0
    THEN TrimTrailingZeros(SubSeq(key, 1, Len(key) - 1))
    ELSE key

\* C3 as stated: verify_signature returns True when the header is the digest
\* of exactly that body under exactly that secret, and False when the header
\* was computed over any body or any secret that differs.
C3_Original ==
    VerifyDone =>
        \A s \in Signers :
            headers[HdrSignature] = s.header =>
                /\ outcome.kind = "return"
                /\ outcome.value <=> (s.key = secret /\ s.raw = body.raw)

\* C3 as amended: verify_signature returns True when the header is the digest
\* of exactly that body under exactly that secret, and False when the header
\* was computed over a body that differs, or over a secret that differs other
\* than by trailing zero bytes (secrets no longer than the hash block).
C3_VerifyMatchesSigner ==
    VerifyDone =>
        \A s \in Signers :
            headers[HdrSignature] = s.header =>
                /\ outcome.kind = "return"
                /\ outcome.value <=>
                     /\ TrimTrailingZeros(s.key) = TrimTrailingZeros(secret)
                     /\ s.raw = body.raw

\* A non-empty secret and body: one header signed with them was accepted.
C3_Witness ==
    /\ VerifyDone
    /\ secret # << >>
    /\ TrimTrailingZeros(secret) = secret
    /\ body.raw # << >>
    /\ headers[HdrSignature] = Sign(secret, body.raw)
    /\ outcome.kind = "return"
    /\ outcome.value = TRUE


----------------------------------------------------------------------------
(* Inputs of process_webhook: webhook payloads                             *)

Without(d, k) == [f \in (DOMAIN d) \ {k} |-> d[f]]
Obj(d) == [kind |-> "object", value |-> d]

User ==
    [id |-> 1, login |-> "testuser", name |-> "Test User",
     email |-> "test@example.com"]

Repo ==
    [id |-> 123, name |-> "test-repo", full_name |-> "testuser/test-repo",
     owner |-> [login |-> "testuser"],
     html_url |-> "https://github.com/testuser/test-repo",
     default_branch |-> "main"]

CommitAuthor ==
    [username |-> "testuser", name |-> "Test User", email |-> "test@example.com"]

\* A commit with its file lists, one without them, one without its author.
CommitFull ==
    [id |-> "def456", message |-> "Test commit",
     timestamp |-> "2026-02-27T21:00:00Z", author |-> CommitAuthor,
     added |-> << "file1.txt" >>, modified |-> << "file3.txt", "file2.txt" >>,
     removed |-> << >>]
CommitBare ==
    [id |-> "abc123", message |-> "Second commit",
     timestamp |-> "2026-02-27T21:05:00Z", author |-> CommitAuthor]
CommitNoAuthor ==
    [id |-> "bad000", message |-> "No author",
     timestamp |-> "2026-02-27T21:06:00Z"]

CommitLists == SeqsUpTo({CommitFull, CommitBare, CommitNoAuthor}, MaxCommits)

PushBase(commits) ==
    [ref |-> "refs/heads/main", before |-> "abc123", after |-> "def456",
     pusher |-> User, repository |-> Repo, commits |-> commits]

PushPayloads ==
    { PushBase(cs) : cs \in CommitLists }
    \cup { Without(PushBase(<< CommitFull >>), k) :
             k \in {"ref", "after", "pusher", "repository", "commits"} }
    \cup { [PushBase(<< >>) EXCEPT !.pusher = [login |-> "testuser"]],
           [PushBase(<< >>) EXCEPT !.repository = Without(Repo, "owner")],
           [PushBase(<< CommitBare >>) EXCEPT !.repository = Without(Repo, "default_branch")] }

PullRequest ==
    [number |-> 42, title |-> "Test PR", state |-> "open",
     html_url |-> "https://github.com/testuser/test-repo/pull/42",
     base |-> [ref |-> "main"], head |-> [ref |-> "feature"],
     user |-> [login |-> "testuser"], labels |-> << [name |-> "bug"] >>]

PullRequestWith(merged) ==
    CASE merged = "true" -> [f \in (DOMAIN PullRequest) \cup {"merged"} |->
                                IF f = "merged" THEN TRUE ELSE PullRequest[f]]
      [] merged = "false" -> [f \in (DOMAIN PullRequest) \cup {"merged"} |->
                                IF f = "merged" THEN FALSE ELSE PullRequest[f]]
      [] OTHER -> PullRequest

PullRequestActions ==
    {"opened", "closed", "reopened", "synchronize", "edited",
     "review_requested", "labeled"}

PullRequestBase(action, merged) ==
    [action |-> action, pull_request |-> PullRequestWith(merged),
     sender |-> User, repository |-> Repo]

PullRequestPayloads ==
    { PullRequestBase(a, m) : a \in PullRequestActions, m \in {"true", "false", "absent"} }
    \cup { Without(PullRequestBase("opened", "absent"), k) :
             k \in {"action", "pull_request", "sender", "repository"} }
    \cup { [PullRequestBase("opened", "absent") EXCEPT
               !.pull_request = Without(PullRequest, "number")],
           [PullRequestBase("closed", "true") EXCEPT
               !.pull_request = Without(PullRequest, "labels")] }

Issue(linked) ==
    IF linked
    THEN [number |-> 7, title |-> "Test issue", state |-> "open",
          html_url |-> "https://github.com/testuser/test-repo/issues/7",
          user |-> [login |-> "testuser"], labels |-> << [name |-> "bug"] >>,
          assignees |-> << [login |-> "testuser"] >>,
          pull_request |-> [url |-> "https://api.github.com/repos/testuser/test-repo/pulls/7"]]
    ELSE [number |-> 7, title |-> "Test issue", state |-> "open",
          html_url |-> "https://github.com/testuser/test-repo/issues/7",
          user |-> [login |-> "testuser"], labels |-> << [name |-> "bug"] >>,
          assignees |-> << [login |-> "testuser"] >>]

IssueActions ==
    {"opened", "closed", "reopened", "edited", "assigned", "labeled", "pinned"}

IssueBase(action) ==
    [action |-> action, issue |-> Issue(FALSE), sender |-> User, repository |-> Repo]

IssuePayloads ==
    { IssueBase(a) : a \in IssueActions }
    \cup { Without(IssueBase("opened"), k) : k \in {"action", "issue", "sender"} }
    \cup { [IssueBase("opened") EXCEPT !.issue = Without(Issue(FALSE), "user")],
           [IssueBase("opened") EXCEPT !.issue = Without(Issue(FALSE), "assignees")] }

Comment ==
    [id |-> 99, body |-> "Looks good",
     html_url |-> "https://github.com/testuser/test-repo/issues/7#issuecomment-99"]

IssueCommentBase(action, linked) ==
    [action |-> action, comment |-> Comment, issue |-> Issue(linked),
     sender |-> User, repository |-> Repo]

IssueCommentPayloads ==
    { IssueCommentBase(a, l) : a \in {"created", "deleted"}, l \in BOOLEAN }
    \cup { Without(IssueCommentBase("created", TRUE), k) :
             k \in {"action", "comment", "issue"} }
    \cup { [IssueCommentBase("created", FALSE) EXCEPT !.comment = Without(Comment, "body")] }

Review ==
    [id |-> 5, state |-> "approved", body |-> "LGTM",
     html_url |-> "https://github.com/testuser/test-repo/pull/42#pullrequestreview-5"]

ReviewBase ==
    [action |-> "submitted", review |-> Review, pull_request |-> PullRequest,
     sender |-> User, repository |-> Repo]

ReviewPayloads ==
    { ReviewBase,
      [ReviewBase EXCEPT !.review = Without(Review, "body")],
      [ReviewBase EXCEPT !.review = Without(Review, "state")],
      Without(ReviewBase, "review") }

Release ==
    [id |-> 11, name |-> "v1.0", tag_name |-> "v1.0.0",
     html_url |-> "https://github.com/testuser/test-repo/releases/v1.0.0",
     draft |-> FALSE, prerelease |-> FALSE]

ReleaseBase(action) ==
    [action |-> action, release |-> Release, sender |-> User, repository |-> Repo]

ReleasePayloads ==
    { ReleaseBase(a) : a \in {"published", "deleted"} }
    \cup { [ReleaseBase("published") EXCEPT !.release = Without(Release, "tag_name")],
           Without(ReleaseBase("published"), "release") }

\* A JSON document that is not an object.
ArrayPayload == [kind |-> "array"]

Payloads ==
    { Obj(d) : d \in PushPayloads \cup PullRequestPayloads \cup IssuePayloads
                     \cup IssueCommentPayloads \cup ReviewPayloads \cup ReleasePayloads }
    \cup { ArrayPayload }

\* X-GitHub-Event values: the registered categories and some others.
Categories == (DOMAIN event_mappers) \cup {"star", "ping", ""}

DeliveryIds == {"test-delivery-id", "72d3162e-cc78-11e3-81ab-4c9367dc0958"}

\* datetime.utcnow().isoformat() at the time of mapping
Clock == {"2026-02-27T21:00:01.000001", "2026-02-27T21:00:02.500000"}

InitMap ==
    /\ secret \in {<< 107 >>}
    /\ publishers = << >>
    /\ pc = "process_webhook"
    /\ headers = NoHeaders
    /\ body = NoBody
    /\ payload \in Payloads
    /\ event_type \in Categories
    /\ delivery_id \in DeliveryIds
    /\ outcome = Pending
    /\ event = NoEvent
    /\ trace = << >>
    /\ sinkLog = << >>
    /\ response = 0

\* One call of handler.process_webhook(event_type, payload, delivery_id).
ProcessWebhook ==
    /\ pc = "process_webhook"
    /\ \E now \in Clock :
         LET r == process_webhook(event_type, payload, delivery_id, now)
         IN  /\ outcome' = r.outcome
             /\ event' = r.standard_event
             /\ trace' = trace \o r.steps
    /\ pc' = "done"
    /\ UNCHANGED << secret, publishers, headers, body, payload, event_type,
                    delivery_id, sinkLog, response >>

NextMap == ProcessWebhook

SpecMap == InitMap /\ [][NextMap]_vars


----------------------------------------------------------------------------
(* Claims about process_webhook, checked under SpecMap                     *)

ProcessDone == pc = "done"

\* The mappers invoked so far, in order.
MapperCalls == SelectSeq(trace, LAMBDA t : t.step = "mapper")

\* The six registered categories and the mapper of each.
RegisteredMapper ==
    [push |-> "map_push_event",
     pull_request |-> "map_pull_request_event",
     issues |-> "map_issue_event",
     issue_comment |-> "map_issue_comment_event",
     pull_request_review |-> "map_pull_request_review_event",
     release |-> "map_release_event"]

\* C5: for a category that is not one of the six registered ones
\* process_webhook returns None without raising and invokes no mapper,
\* whatever the payload; for each registered category it invokes exactly the
\* mapper registered for it, once.
C5_Dispatch ==
    ProcessDone =>
        IF event_type \in DOMAIN RegisteredMapper
        THEN MapperCalls = << Step("mapper", RegisteredMapper[event_type]) >>
        ELSE /\ MapperCalls = << >>
             /\ outcome.kind = "return"
             /\ event.cls = "NoneType"

\* An unsupported category with a payload a mapper would accept: no event.
C5_Witness ==
    /\ ProcessDone
    /\ event_type = "star"
    /\ payload = Obj(PushBase(<< CommitFull >>))
    /\ outcome.kind = "return"
    /\ event.cls = "NoneType"
    /\ MapperCalls = << >>

\* A path into a payload: keys that must be there (req), keys that may be
\* missing (opt), and "every element of this list" (each).
Req(k) == [key |-> k, mode |-> "req"]
Opt(k) == [key |-> k, mode |-> "opt"]
Each == [key |-> "*", mode |-> "each"]

RECURSIVE HasPath(_, _)
HasPath(v, path) ==
    IF path = << >> THEN TRUE
    ELSE LET h == Head(path)
         IN  CASE h.mode = "each" ->
                    \A i \in 1..Len(v) : HasPath(v[i], Tail(path))
               [] h.mode = "opt" ->
                    h.key \in DOMAIN v => HasPath(v[h.key], Tail(path))
               [] OTHER ->
                    h.key \in DOMAIN v /\ HasPath(v[h.key], Tail(path))

UserPaths(k) == { << Req(k), Req("id") >>, << Req(k), Req("login") >> }

RepositoryPaths ==
    { << Req("repository"), Req(f) >> : f \in {"id", "name", "full_name", "html_url"} }
    \cup { << Req("repository"), Req("owner"), Req("login") >> }

\* The fields each category's payload is required to carry.
RequiredPaths(category) ==
    RepositoryPaths \cup
    CASE category = "push" ->
            UserPaths("pusher")
            \cup { << Req(f) >> : f \in {"ref", "before", "after"} }
            \cup { << Opt("commits"), Each, Req(f) >> : f \in {"id", "message", "timestamp"} }
            \cup { << Opt("commits"), Each, Req("author"), Req(f) >> :
                     f \in {"username", "name", "email"} }
      [] category = "pull_request" ->
            UserPaths("sender") \cup { << Req("action") >> }
            \cup { << Req("pull_request"), Req(f) >> :
                     f \in {"number", "title", "state", "html_url"} }
            \cup { << Req("pull_request"), Req(f), Req("ref") >> : f \in {"base", "head"} }
            \cup { << Req("pull_request"), Req("user"), Req("login") >>,
                   << Req("pull_request"), Opt("labels"), Each, Req("name") >> }
      [] category = "issues" ->
            UserPaths("sender") \cup { << Req("action") >> }
            \cup { << Req("issue"), Req(f) >> :
                     f \in {"number", "title", "state", "html_url"} }
            \cup { << Req("issue"), Req("user"), Req("login") >>,
                   << Req("issue"), Opt("labels"), Each, Req("name") >>,
                   << Req("issue"), Opt("assignees"), Each, Req("login") >> }
      [] category = "issue_comment" ->
            UserPaths("sender") \cup { << Req("action") >> }
            \cup { << Req("comment"), Req(f) >> : f \in {"id", "body", "html_url"} }
            \cup { << Req("issue"), Req(f) >> : f \in {"number", "title"} }
      [] category = "pull_request_review" ->
            UserPaths("sender") \cup { << Req("action") >> }
            \cup { << Req("review"), Req(f) >> : f \in {"id", "state", "html_url"} }
            \cup { << Req("pull_request"), Req(f) >> : f \in {"number", "title"} }
      [] category = "release" ->
            UserPaths("sender") \cup { << Req("action") >> }
            \cup { << Req("release"), Req(f) >> :
                     f \in {"id", "name", "tag_name", "html_url", "draft", "prerelease"} }

\* The payload is not an object, or lacks a field its category requires.
LacksRequiredField(category, p) ==
    \/ p.kind # "object"
    \/ \E path \in RequiredPaths(category) : ~HasPath(p.value, path)

\* C6: when a registered mapper fails on a payload (a required field is
\* absent), process_webhook returns no event and the failure reaches the
\* caller as an exception that is neither the Unauthorized nor the
\* MalformedPayload kind; no event is built from defaults in place of the
\* missing required field.
C6_MappingFailurePropagates ==
    (ProcessDone /\ event_type \in DOMAIN RegisteredMapper) =>
        /\ LacksRequiredField(event_type, payload) =>
              (outcome.kind = "raise" /\ event.cls = "NoneType")
        /\ outcome.kind = "raise" =>
              (event.cls = "NoneType" /\ outcome.exc \notin ValueErrors)
        /\ outcome.kind = "return" =>
              (event.cls = "StandardEvent" /\ ~LacksRequiredField(event_type, payload))

\* A push payload without its required ref: the push mapper raised.
C6_Witness ==
    /\ ProcessDone
    /\ event_type = "push"
    /\ payload = Obj(Without(PushBase(<< CommitFull >>), "ref"))
    /\ outcome.kind = "raise"
    /\ outcome.exc = "KeyError"
    /\ event.cls = "NoneType"


----------------------------------------------------------------------------
(* MultiPublisher.publish                                                  *)

\* The list comprehension reaches the next publisher and calls its publish;
\* an exception of the call leaves the comprehension and publish.
PublishSink ==
    /\ pc = "publish"
    /\ Len(sinkLog) < Len(publishers)
    /\ \E net \in Transport :
         LET i == Len(sinkLog) + 1
             r == SinkPublish(publishers[i], event, net)
         IN  /\ sinkLog' = Append(sinkLog, [index |-> i, sink |-> publishers[i], result |-> r])
             /\ IF r.kind = "raise"
                THEN outcome' = r /\ pc' = "published"
                ELSE outcome' = outcome /\ pc' = pc
    /\ trace' = Append(trace, Step("sink", publishers[Len(sinkLog) + 1]))
    /\ UNCHANGED << secret, publishers, headers, body, payload, event_type,
                    delivery_id, event, response >>

\* Every publisher has returned: return all(results).
PublishReturn ==
    /\ pc = "publish"
    /\ Len(sinkLog) = Len(publishers)
    /\ outcome' = Returned(All(sinkLog))
    /\ pc' = "published"
    /\ UNCHANGED << secret, publishers, headers, body, payload, event_type,
                    delivery_id, event, trace, sinkLog, response >>

\* MultiPublisher(publishers) for any list of sinks, and any event a
\* registered mapper returns.
InitPublish ==
    /\ secret \in {<< 107 >>}
    /\ publishers \in SeqsUpTo(SinkKinds, MaxSinks)
    /\ pc = "publish"
    /\ headers = NoHeaders
    /\ body = NoBody
    /\ payload \in Payloads
    /\ event_type \in DOMAIN event_mappers
    /\ delivery_id = "test-delivery-id"
    /\ \E now \in {CHOOSE t \in Clock : TRUE} :
         LET r == process_webhook(event_type, payload, delivery_id, now)
         IN  /\ r.outcome.kind = "return"
             /\ event = r.standard_event
    /\ outcome = Pending
    /\ trace = << >>
    /\ sinkLog = << >>
    /\ response = 0

NextPublish == PublishSink \/ PublishReturn

SpecPublish == InitPublish /\ [][NextPublish]_vars


----------------------------------------------------------------------------
(* The request pipeline: github_webhook and handle_request                 *)

\* Request bodies: the document each decodes to.  The first is no JSON.
PipelineDocs ==
    << [kind |-> "invalid"],
       ArrayPayload,
       Obj(PushBase(<< CommitFull >>)),
       Obj(PushBase(<< >>)),
       Obj(Without(PushBase(<< CommitFull >>), "ref")),
       Obj(PullRequestBase("closed", "true")),
       Obj(IssueBase("opened")),
       Obj(IssueCommentBase("created", TRUE)),
       Obj(ReviewBase),
       Obj(ReleaseBase("published")) >>

\* The bytes of document i: an opening brace and a byte telling them apart.
RequestBody(i) == [raw |-> << 123, i >>, json |-> PipelineDocs[i]]

RequestBodies == { RequestBody(i) : i \in 1..Len(PipelineDocs) }

\* The secrets the handler is configured with, and other senders' secrets.
PipelineSecrets == { << 107 >>, << >> }
OtherSecrets == { << 0, 107 >>, << 107, 0 >> }

\* Every sender of a request: a secret, a body and the header computed
\* with them.
RequestSigners ==
    { [key |-> k, raw |-> r, header |-> Sign(k, r)] :
        k \in PipelineSecrets \cup OtherSecrets,
        r \in { b.raw : b \in RequestBodies } \cup { << 123 >> } }

SignedHeader(k, r) == (CHOOSE s \in RequestSigners : s.key = k /\ s.raw = r).header

\* X-Hub-Signature-256 values a request to this handler may carry: signed
\* with the handler's or another secret, signed over another body, without
\* the prefix, and not ASCII.
RequestSignatures(b) ==
    { SignedHeader(k, b.raw) : k \in {secret} \cup OtherSecrets }
    \cup { SignedHeader(secret, << 123 >>),
           SubSeq(SignedHeader(secret, b.raw), 8, Len(SignedHeader(secret, b.raw))),
           SigPrefix \o << NonAsciiChar >> }

\* A header that is there with one of the values, or not there.
MaybeHeader(name, values) ==
    { (name :> v) : v \in values } \cup { NoHeaders }

RequestHeaders(b) ==
    { s @@ e @@ d :
        s \in MaybeHeader(HdrSignature, RequestSignatures(b)),
        e \in MaybeHeader(HdrEvent, Categories),
        d \in MaybeHeader(HdrDelivery, {"test-delivery-id"}) }

\* flask_app: the handler with its secret, and the publishers configured
\* without and with EVENT_BUS_ENDPOINT.
Init ==
    /\ secret \in PipelineSecrets
    /\ publishers \in { << "ConsolePublisher" >>,
                        << "ConsolePublisher", "HTTPPublisher" >> }
    /\ pc = "idle"
    /\ headers = NoHeaders
    /\ body = NoBody
    /\ payload = NoPayload
    /\ event_type = None
    /\ delivery_id = None
    /\ outcome = Pending
    /\ event = NoEvent
    /\ trace = << >>
    /\ sinkLog = << >>
    /\ response = 0

\* A POST to /webhooks/github arrives: github_webhook calls handle_request.
Receive ==
    /\ pc = "idle"
    /\ \E b \in RequestBodies :
         /\ body' = b
         /\ headers' \in RequestHeaders(b)
    /\ pc' = "verify"
    /\ UNCHANGED << secret, publishers, payload, event_type, delivery_id,
                    outcome, event, trace, sinkLog, response >>

\* handle_request that goes on to parse whatever verify_signature says.
HandleVerifyIgnored ==
    /\ pc = "verify"
    /\ trace' = Append(trace, Step("verify_signature", None))
    /\ outcome' = outcome
    /\ pc' = "parse"
    /\ UNCHANGED << secret, publishers, headers, body, payload, event_type,
                    delivery_id, event, sinkLog, response >>

\* handle_request: verify the signature, raise ValueError if it is not valid.
HandleVerify ==
    /\ pc = "verify"
    /\ LET signature == HeaderGet(headers, HdrSignature, << >>)
           r == verify_signature(secret, body.raw, signature)
       IN  IF r.kind = "raise"
           THEN outcome' = r /\ pc' = "done"
           ELSE IF ~r.value
                THEN outcome' = Raised("ValueError") /\ pc' = "done"
                ELSE outcome' = outcome /\ pc' = "parse"
    /\ trace' = Append(trace, Step("verify_signature", None))
    /\ UNCHANGED << secret, publishers, headers, body, payload, event_type,
                    delivery_id, event, sinkLog, response >>

\* handle_request: payload = json.loads(body)
HandleParse ==
    /\ pc = "parse"
    /\ LET r == json_loads(body)
       IN  IF r.kind = "raise"
           THEN outcome' = r /\ pc' = "done" /\ payload' = payload
           ELSE outcome' = outcome /\ pc' = "identify" /\ payload' = r.value
    /\ trace' = Append(trace, Step("json.loads", None))
    /\ UNCHANGED << secret, publishers, headers, body, event_type,
                    delivery_id, event, sinkLog, response >>

\* handle_request: read the two headers, raise ValueError if one is missing
\* or empty; then process_webhook is called.
HandleIdentify ==
    /\ pc = "identify"
    /\ event_type' = HeaderGet(headers, HdrEvent, None)
    /\ delivery_id' = HeaderGet(headers, HdrDelivery, None)
    /\ IF event_type' \in {None, ""} \/ delivery_id' \in {None, ""}
       THEN outcome' = Raised("ValueError") /\ pc' = "done"
       ELSE outcome' = outcome /\ pc' = "process_webhook"
    /\ trace' = Append(trace, Step("headers.get", None))
    /\ UNCHANGED << secret, publishers, headers, body, payload, event,
                    sinkLog, response >>

\* github_webhook: handle_request raised.  ValueError is answered 401, any
\* other exception 500.
RespondError ==
    /\ pc = "done"
    /\ outcome.kind = "raise"
    /\ response' = IF outcome.exc \in ValueErrors THEN 401 ELSE 500
    /\ pc' = "responded"
    /\ UNCHANGED << secret, publishers, headers, body, payload, event_type,
                    delivery_id, outcome, event, trace, sinkLog >>

\* github_webhook: handle_request returned None: 200, ignored.
RespondIgnored ==
    /\ pc = "done"
    /\ outcome.kind = "return"
    /\ event.cls = "NoneType"
    /\ response' = 200
    /\ pc' = "responded"
    /\ UNCHANGED << secret, publishers, headers, body, payload, event_type,
                    delivery_id, outcome, event, trace, sinkLog >>

\* github_webhook: handle_request returned an event: event_publisher.publish.
StartPublish ==
    /\ pc = "done"
    /\ outcome.kind = "return"
    /\ event.cls = "StandardEvent"
    /\ outcome' = Pending
    /\ pc' = "publish"
    /\ trace' = Append(trace, Step("publish", None))
    /\ UNCHANGED << secret, publishers, headers, body, payload, event_type,
                    delivery_id, event, sinkLog, response >>

\* A github_webhook that calls event_publisher.publish again when the call
\* returned false.
RespondPublishedRetrying ==
    /\ pc = "published"
    /\ IF outcome.kind = "return" /\ ~outcome.value
       THEN /\ outcome' = Pending
            /\ pc' = "publish"
            /\ trace' = Append(trace, Step("publish", None))
            /\ sinkLog' = << >>
            /\ response' = response
       ELSE /\ response' = IF outcome.kind = "return" THEN 200 ELSE 500
            /\ pc' = "responded"
            /\ UNCHANGED << outcome, trace, sinkLog >>
    /\ UNCHANGED << secret, publishers, headers, body, payload, event_type,
                    delivery_id, event >>

\* github_webhook: publish returned (200 if true, 500 if false) or raised
\* (no publisher raises a ValueError: 500).
RespondPublished ==
    /\ pc = "published"
    /\ response' = IF outcome.kind = "return"
                   THEN (IF outcome.value THEN 200 ELSE 500)
                   ELSE (IF outcome.exc \in ValueErrors THEN 401 ELSE 500)
    /\ pc' = "responded"
    /\ UNCHANGED << secret, publishers, headers, body, payload, event_type,
                    delivery_id, outcome, event, trace, sinkLog >>

\* The response is sent; nothing of the request is kept.
Finish ==
    /\ pc = "responded"
    /\ pc' = "idle"
    /\ headers' = NoHeaders
    /\ body' = NoBody
    /\ payload' = NoPayload
    /\ event_type' = None
    /\ delivery_id' = None
    /\ outcome' = Pending
    /\ event' = NoEvent
    /\ trace' = << >>
    /\ sinkLog' = << >>
    /\ response' = 0
    /\ UNCHANGED << secret, publishers >>

Next ==
    \/ Receive
    \/ HandleVerify
    \/ HandleParse
    \/ HandleIdentify
    \/ ProcessWebhook
    \/ RespondError
    \/ RespondIgnored
    \/ StartPublish
    \/ PublishSink
    \/ PublishReturn
    \/ RespondPublished
    \/ Finish

Spec == Init /\ [][Next]_vars


----------------------------------------------------------------------------
(* Claims about handle_request, checked under Spec                         *)

\* The request carries the signature of its own body under the handler's secret.
SignatureValid == HeaderGet(headers, HdrSignature, << >>) = SignedHeader(secret, body.raw)

BodyParses == body.json.kind # "invalid"

\* The names of the steps handle_request has executed, in order.
HandlerSteps ==
    LET own == SelectSeq(trace, LAMBDA t : t.step \notin {"publish", "sink"})
    IN  [i \in 1..Len(own) |-> own[i].step]

IsPrefix(a, b) == Len(a) <= Len(b) /\ SubSeq(b, 1, Len(a)) = a

\* C1: in handle_request the signature is checked before the body is parsed,
\* the body is parsed before the event-category and delivery-id headers are
\* read and before any mapper runs; when the signature does not verify or the
\* body does not parse, no mapper is invoked and no event is returned (the
\* call raises), and nothing is published.
C1_VerifyParseBeforeMapping ==
    pc # "idle" =>
        /\ IsPrefix(HandlerSteps, << "verify_signature", "json.loads", "headers.get", "mapper" >>)
        /\ ~SignatureValid => IsPrefix(HandlerSteps, << "verify_signature" >>)
        /\ (~SignatureValid \/ ~BodyParses) =>
              /\ MapperCalls = << >>
              /\ event.cls = "NoneType"
              /\ sinkLog = << >>
              /\ pc \in {"done", "responded"} => outcome.kind = "raise"

\* A push request that would map, with a signature made with another
\* secret: handle_request raised after the verification step alone.
C1_Witness ==
    /\ pc = "done"
    /\ ~SignatureValid
    /\ HdrSignature \in DOMAIN headers
    /\ body.json = Obj(PushBase(<< CommitFull >>))
    /\ HeaderGet(headers, HdrEvent, None) = "push"
    /\ HdrDelivery \in DOMAIN headers
    /\ HandlerSteps = << "verify_signature" >>
    /\ outcome.kind = "raise"
    /\ event.cls = "NoneType"

\* C4: with a valid signature, a body that does not parse, an absent
\* event-category header and an absent delivery-id header each end
\* handle_request with an error of another kind than the ValueError a
\* signature failure raises.
C4_MalformedDistinctFromUnauthorized ==
    ( /\ pc = "done"
      /\ SignatureValid
      /\ \/ ~BodyParses
         \/ HdrEvent \notin DOMAIN headers
         \/ HdrDelivery \notin DOMAIN headers )
    => (outcome.kind = "raise" /\ outcome.exc # "ValueError")

----------------------------------------------------------------------------
(* Claims about the mappers' results, checked under SpecMap                *)

\* The commits of a push payload; none when the list is absent.
PayloadCommits ==
    IF "commits" \in DOMAIN payload.value THEN payload.value.commits ELSE << >>

\* One of the three file lists of a commit; empty when the commit has none.
FileList(commit, k) == IF k \in DOMAIN commit THEN commit[k] ELSE << >>

\* C12: for every push payload that carries the fields the mapper requires,
\* map_push_event returns one event of type CODE_PUSH with as many changes as
\* the payload has commits (none when the list is empty or absent); the i-th
\* change is of kind COMMIT, has the i-th commit's id, message and timestamp,
\* and its added, modified and removed lists are the commit's, in order.
C12_PushChangesFollowCommits ==
    (ProcessDone /\ event_type = "push" /\ ~LacksRequiredField("push", payload)) =>
        /\ outcome.kind = "return"
        /\ Len(MapperCalls) = 1
        /\ event.cls = "StandardEvent"
        /\ event.type = "EventType.CODE_PUSH"
        /\ Len(event.changes) = Len(PayloadCommits)
        /\ \A i \in 1..Len(PayloadCommits) :
              /\ event.changes[i].type = "ChangeType.COMMIT"
              /\ event.changes[i].id = PayloadCommits[i].id
              /\ event.changes[i].message = PayloadCommits[i].message
              /\ event.changes[i].timestamp = PayloadCommits[i].timestamp
              /\ event.changes[i].files_added = FileList(PayloadCommits[i], "added")
              /\ event.changes[i].files_modified = FileList(PayloadCommits[i], "modified")
              /\ event.changes[i].files_removed = FileList(PayloadCommits[i], "removed")

\* A push of two commits, the second with an added and two modified paths,
\* has been mapped to an event of two changes.
C12_Witness ==
    /\ ProcessDone
    /\ event_type = "push"
    /\ payload.kind = "object"
    /\ ~LacksRequiredField("push", payload)
    /\ Len(PayloadCommits) = 2
    /\ PayloadCommits[1].id = "abc123"
    /\ PayloadCommits[2].id = "def456"
    /\ event.cls = "StandardEvent"
    /\ Len(event.changes) = 2
    /\ event.changes[2].files_modified = << "file3.txt", "file2.txt" >>

\* A push without a commits list has been mapped to an event without changes.
C12_WitnessNoCommits ==
    /\ ProcessDone
    /\ event_type = "push"
    /\ payload.kind = "object"
    /\ "commits" \notin DOMAIN payload.value
    /\ event.cls = "StandardEvent"
    /\ event.changes = << >>

\* The pull request of the payload has a merged flag, and it is true.
PayloadMerged ==
    /\ "merged" \in DOMAIN payload.value.pull_request
    /\ payload.value.pull_request.merged = TRUE

\* C13: for every pull_request payload that carries the fields the mapper
\* requires, map_pull_request_event returns an event whose type follows the
\* action: opened -> PR_OPENED, reopened -> PR_REOPENED, synchronize and
\* edited -> PR_UPDATED, review_requested -> PR_REVIEW_REQUESTED, closed ->
\* PR_MERGED when the pull request's merged flag is true and PR_CLOSED when
\* it is false or absent, any other action -> PR_UPDATED.
C13_PullRequestTypeByAction ==
    ( /\ ProcessDone
      /\ event_type = "pull_request"
      /\ ~LacksRequiredField("pull_request", payload) ) =>
        /\ outcome.kind = "return"
        /\ event.cls = "StandardEvent"
        /\ LET action == payload.value.action
           IN  /\ action = "opened" => event.type = "EventType.PR_OPENED"
               /\ action = "reopened" => event.type = "EventType.PR_REOPENED"
               /\ action \in {"synchronize", "edited"} => event.type = "EventType.PR_UPDATED"
               /\ action = "review_requested" => event.type = "EventType.PR_REVIEW_REQUESTED"
               /\ (action = "closed" /\ PayloadMerged) => event.type = "EventType.PR_MERGED"
               /\ (action = "closed" /\ ~PayloadMerged) => event.type = "EventType.PR_CLOSED"
               /\ action \notin {"opened", "reopened", "synchronize", "edited",
                                 "review_requested", "closed"}
                     => event.type = "EventType.PR_UPDATED"

\* A closed pull request whose merged flag is true has been mapped to
\* PR_MERGED.
C13_Witness ==
    /\ ProcessDone
    /\ event_type = "pull_request"
    /\ payload.kind = "object"
    /\ ~LacksRequiredField("pull_request", payload)
    /\ payload.value.action = "closed"
    /\ PayloadMerged
    /\ event.cls = "StandardEvent"
    /\ event.type = "EventType.PR_MERGED"

\* The issue object of the payload has a pull_request entry.
IssueLinkedToPullRequest == "pull_request" \in DOMAIN payload.value.issue

\* C14: for every issue_comment payload that carries the fields the mapper
\* requires, map_issue_comment_event returns an event of type PR_COMMENT
\* when the payload's issue object carries a pull_request entry and of type
\* ISSUE_COMMENT when it does not, whatever the action.
C14_CommentTypeByLinkage ==
    ( /\ ProcessDone
      /\ event_type = "issue_comment"
      /\ ~LacksRequiredField("issue_comment", payload) ) =>
        /\ outcome.kind = "return"
        /\ event.cls = "StandardEvent"
        /\ event.type \in {"EventType.PR_COMMENT", "EventType.ISSUE_COMMENT"}
        /\ event.type = "EventType.PR_COMMENT" <=> IssueLinkedToPullRequest
        /\ event.metadata.action = payload.value.action

\* A deleted comment on an issue without pull_request entry has been mapped
\* to ISSUE_COMMENT.
C14_Witness ==
    /\ ProcessDone
    /\ event_type = "issue_comment"
    /\ payload.kind = "object"
    /\ ~LacksRequiredField("issue_comment", payload)
    /\ payload.value.action = "deleted"
    /\ ~IssueLinkedToPullRequest
    /\ event.cls = "StandardEvent"
    /\ event.type = "EventType.ISSUE_COMMENT"

\* A created comment on an issue with a pull_request entry has been mapped
\* to PR_COMMENT.
C14_WitnessLinked ==
    /\ ProcessDone
    /\ event_type = "issue_comment"
    /\ payload.kind = "object"
    /\ ~LacksRequiredField("issue_comment", payload)
    /\ payload.value.action = "created"
    /\ IssueLinkedToPullRequest
    /\ event.cls = "StandardEvent"
    /\ event.type = "EventType.PR_COMMENT"

----------------------------------------------------------------------------
(* Claim about github_webhook, checked under Spec                          *)

PublishCalls == SelectSeq(trace, LAMBDA t : t.step = "publish")

RequestCategory == HeaderGet(headers, HdrEvent, None)

\* The request is one of those handle_request returns no event for: bad
\* signature, malformed payload or headers, unsupported category, or a
\* payload the category's mapper fails on.
RequestFails ==
    \/ ~SignatureValid
    \/ ~BodyParses
    \/ RequestCategory \in {None, ""}
    \/ HeaderGet(headers, HdrDelivery, None) \in {None, ""}
    \/ RequestCategory \notin DOMAIN RegisteredMapper
    \/ LacksRequiredField(RequestCategory, body.json)

\* Every publish and sink step of the trace comes after the mapper step.
PublishAfterMapper ==
    \E i \in 1..Len(trace) :
        /\ trace[i].step = "mapper"
        /\ \A j \in 1..Len(trace) :
              trace[j].step \in {"publish", "sink"} => i < j

\* C11: in github_webhook the publisher is invoked only after handle_request
\* has returned a constructed event, never for a request that ended in
\* signature failure, malformed payload, unsupported category or mapping
\* failure; for a request that produced an event it is invoked exactly
\* once, and a publish that did not succeed is answered 500 without a
\* second invocation.
C11_PublishOnceAfterEvent ==
    pc # "idle" =>
        /\ Len(PublishCalls) <= 1
        /\ (PublishCalls # << >> \/ sinkLog # << >>) =>
              /\ ~RequestFails
              /\ Len(PublishCalls) = 1
              /\ PublishAfterMapper
              /\ event.cls = "StandardEvent"
              /\ event.id = delivery_id
              /\ event.type \in DOMAIN EventType
              /\ \A i \in 1..Len(sinkLog) : sinkLog[i].index = i
              /\ Len(sinkLog) <= Len(publishers)
        /\ pc = "responded" =>
              /\ ~RequestFails <=> Len(PublishCalls) = 1
              /\ ( /\ Len(PublishCalls) = 1
                   /\ ~(outcome.kind = "return" /\ outcome.value = TRUE) )
                 => response = 500

\* An issue event was produced and published once; the HTTP sink did not
\* deliver it, publish returned false and the answer is 500.
C11_Witness ==
    /\ pc = "responded"
    /\ ~RequestFails
    /\ RequestCategory = "issues"
    /\ Len(PublishCalls) = 1
    /\ Len(sinkLog) = 2
    /\ outcome.kind = "return"
    /\ outcome.value = FALSE
    /\ response = 500

----------------------------------------------------------------------------
(* Claims about the publishers, checked under SpecPublish                  *)

PublishDone == pc = "published"

\* C7: MultiPublisher.publish invokes every configured sink exactly once, in
\* list order, also after a sink that did not succeed.
C7_EverySinkInvoked ==
    PublishDone =>
        /\ Len(sinkLog) = Len(publishers)
        /\ \A i \in 1..Len(sinkLog) :
              sinkLog[i].index = i /\ sinkLog[i].sink = publishers[i]

SinkReported(i, v) ==
    /\ sinkLog[i].result.kind = "return"
    /\ sinkLog[i].result.value = v

\* C8: MultiPublisher.publish returns true exactly when every configured
\* sink reported success, and false once at least one sink reported failure,
\* wherever that sink is in the list.
C8_AggregateResult ==
    PublishDone =>
        /\ (\E i \in 1..Len(sinkLog) : SinkReported(i, FALSE))
              => (outcome.kind = "return" /\ outcome.value = FALSE)
        /\ ( /\ Len(sinkLog) = Len(publishers)
             /\ \A i \in 1..Len(sinkLog) : SinkReported(i, TRUE) )
              <=> (outcome.kind = "return" /\ outcome.value = TRUE)

\* C9: ConsolePublisher.publish returns true, and does not raise, for every
\* event a registered mapper produces.
C9_ConsoleAlwaysSucceeds ==
    \A i \in 1..Len(sinkLog) :
        sinkLog[i].sink = "ConsolePublisher" => SinkReported(i, TRUE)

----------------------------------------------------------------------------
(* Claim about StandardEvent.to_dict, checked under SpecMap                *)

Codes(enum) == { enum[m] : m \in DOMAIN enum }

\* C10: for every event a mapper produces, to_dict renders the event type and
\* each change's kind as their string codes, gives the actor, the
\* repository, the metadata, each change and each change's author as plain
\* mappings, and keeps the changes in the order of the event.
C10_ToDictJsonCompatible ==
    (ProcessDone /\ event.cls = "StandardEvent") =>
        LET d == to_dict(event)
        IN  /\ d.type \in Codes(EventType)
            /\ IsPlainMapping(d.actor)
            /\ IsPlainMapping(d.repository)
            /\ IsPlainMapping(d.metadata)
            /\ Len(d.changes) = Len(event.changes)
            /\ \A i \in 1..Len(d.changes) :
                  /\ IsPlainMapping(d.changes[i])
                  /\ d.changes[i].id = event.changes[i].id
                  /\ d.changes[i].type \in Codes(ChangeType)
                  /\ IsPlainMapping(d.changes[i].author)

=============================================================================
